---- MODULE Spec2Model ----
(***************************************************************************)
(* Model of src/app.py: the start-up loading of the four dependencies and  *)
(* the retrieval pipeline retrieve_top_n as called by the /retrieve        *)
(* endpoint (translate, embed, search, materialize).                       *)
(*                                                                         *)
(* Python values are modelled as tagged records [t |-> type, v |-> text]   *)
(* so that isinstance() and truthiness can be evaluated.  Similarity       *)
(* scores are dyadic rationals u / ScoreDen, which binary floats hold      *)
(* exactly, so that the "%.2f" formatting is the exact round-half-even of   *)
(* the value, as CPython computes it.  Formatted numbers are sequences of  *)
(* one-character strings.                                                  *)
(***************************************************************************)
EXTENDS Integers, Sequences, FiniteSets, TLC

VARIABLES pc, model, translator, index, df, load_error,
          user_query, top_n, detected_language, translated_query,
          encoded, cands, results, calls, raised

vars == <<pc, model, translator, index, df, load_error,
          user_query, top_n, detected_language, translated_query,
          encoded, cands, results, calls, raised>>

-----------------------------------------------------------------------------
(* Bounds *)

MaxStore == 2
MaxIndex == MaxStore + 1
ScoreBits == 4
ScoreDen == 2 ^ ScoreBits
SmallTopN == 2
TopN == 5
TopNs == {SmallTopN, TopN}
Scores == {-1, 6, 17}

-----------------------------------------------------------------------------
(* Python values *)

Str(s) == [t |-> "str", v |-> s]
NoneV == [t |-> "NoneType", v |-> "None"]
NaN == [t |-> "float", v |-> "nan"]
Obj(name) == [t |-> name, v |-> "object"]
Unset == [t |-> "unset", v |-> ""]

Truthy(x) ==
    CASE x.t = "NoneType" -> FALSE
      [] x.t = "str" -> x.v # ""
      [] OTHER -> TRUE

isinstance(x, ty) == x.t = ty

-----------------------------------------------------------------------------
(* The cells of the 'prompt' column and the two library parsers *)

PLit == Str("{'Title': 'T1', 'Author': 'A1', 'Labels': 'L1', 'Read Level': 'R1', 'Hyperlink': 'H1'}")
PJson == Str("{\"Title\": \"T2\", \"Hyperlink\": null}")
PList == Str("[1, 2]")
PBad == Str("Title: T4")
PTypeErr == Str("{[1]: 2}")

Payloads == {PLit, PJson, PList, PBad, PTypeErr, NaN}

Returned(val) == [exc |-> "", val |-> val]
Raised(e) == [exc |-> e, val |-> NoneV]

DictLit == [t |-> "dict",
            v |-> ("Title" :> Str("T1")) @@ ("Author" :> Str("A1")) @@
                  ("Labels" :> Str("L1")) @@ ("Read Level" :> Str("R1")) @@
                  ("Hyperlink" :> Str("H1"))]
DictJson == [t |-> "dict",
             v |-> ("Title" :> Str("T2")) @@ ("Hyperlink" :> NoneV)]
ListVal == [t |-> "list", v |-> "[1, 2]"]

\* ast.literal_eval on the cells above
literal_eval(s) ==
    CASE s = PLit -> Returned(DictLit)
      [] s = PJson -> Raised("ValueError")
      [] s = PList -> Returned(ListVal)
      [] s = PBad -> Raised("SyntaxError")
      [] s = PTypeErr -> Raised("TypeError")

\* json.loads on the cells above
json_loads(s) ==
    CASE s = PLit -> Raised("JSONDecodeError")
      [] s = PJson -> Returned(DictJson)
      [] s = PList -> Returned(ListVal)
      [] s = PBad -> Raised("JSONDecodeError")
      [] s = PTypeErr -> Raised("JSONDecodeError")

\* dict.get(key, default)
get(d, key, default) == IF key \in DOMAIN d.v THEN d.v[key] ELSE default

-----------------------------------------------------------------------------
(* f"{distance:.2f}" for distance = u / ScoreDen *)

DigitChars == <<"0", "1", "2", "3", "4", "5", "6", "7", "8", "9">>

RECURSIVE Digits(_)
Digits(n) == IF n < 10 THEN <<DigitChars[n + 1]>>
             ELSE Digits(n \div 10) \o <<DigitChars[(n % 10) + 1]>>

Abs(n) == IF n < 0 THEN -n ELSE n

\* nearest integer to num / den, ties to even (num >= 0, den > 0)
RoundHalfEven(num, den) ==
    LET q == num \div den
        r == num % den
    IN  IF 2 * r < den THEN q
        ELSE IF 2 * r > den THEN q + 1
        ELSE IF q % 2 = 0 THEN q ELSE q + 1

\* the text of a number of hundredths h >= 0 with two decimals
Fixed2(h) == Digits(h \div 100) \o <<".">> \o
             <<DigitChars[((h \div 10) % 10) + 1], DigitChars[(h % 10) + 1]>>

Format2f(u) ==
    LET h == RoundHalfEven(100 * Abs(u), ScoreDen)
    IN  (IF u < 0 THEN <<"-">> ELSE <<>>) \o Fixed2(h)

-----------------------------------------------------------------------------
(* The record store, the index search and the translator *)

DataFrame(rows) == [t |-> "DataFrame", v |-> rows]
Index(ntotal) == [t |-> "Index", v |-> ntotal]

Stores == UNION {[1..n -> Payloads] : n \in 0..MaxStore}

\* data.iloc[idx]['prompt']: positions -N..-1 count from the end
iloc(data, idx) ==
    LET N == Len(data.v)
    IN  IF 0 <= idx /\ idx < N THEN Returned(data.v[idx + 1])
        ELSE IF -N <= idx /\ idx < 0 THEN Returned(data.v[N + idx + 1])
        ELSE Raised("IndexError")

Min(a, b) == IF a < b THEN a ELSE b

Range(f) == {f[i] : i \in DOMAIN f}

PadScore == CHOOSE m \in Scores : \A x \in Scores : m <= x
Pad == [idx |-> -1, score |-> PadScore]

\* index.search(query_embedding, k)[..][0]: the min(ntotal, k) nearest
\* positions, best first, then placeholders of position -1 and lowest score
SearchResults(ntotal, k) ==
    LET n == Min(ntotal, k)
        Ranked == {s \in [1..n -> [idx : 0..(ntotal - 1), score : Scores]] :
                      /\ \A i, j \in 1..n : i < j => /\ s[i].idx # s[j].idx
                                                     /\ s[i].score >= s[j].score}
    IN  {[i \in 1..k |-> IF i <= n THEN s[i] ELSE Pad] : s \in Ranked}

Queries == {Str(""), NoneV, Str("livres pour enfants")}
Languages == {"en", "fr"}

\* translator.translate(q, src, dest='en').text
TranslateText(q) ==
    IF q = Str("livres pour enfants") THEN Str("children's books") ELSE q

-----------------------------------------------------------------------------
(* retrieve_top_n *)

\* line 37
AllLoaded(m, ix, data, tr) ==
    Truthy(m) /\ Truthy(ix) /\ data.t # "NoneType" /\ Truthy(tr)

NotQuery_IsNone(q) == q.t = "NoneType"

\* line 41
NotQuery(q) == ~Truthy(q)

TranslationResult_NoFallback(current, q, tr) ==
    IF tr = "raise" THEN NoneV ELSE TranslateText(q)

\* lines 49-53: translated_query after translator.translate returned
\* (tr = "ok") or raised; current is its value from line 45
TranslationResult(current, q, tr) ==
    IF tr = "raise" THEN current ELSE TranslateText(q)

ParsePrompt_NoJson(prompt_content) ==
    IF isinstance(prompt_content, "str")
    THEN LET lit == literal_eval(prompt_content)
         IN  IF lit.exc = "" THEN [flow |-> "ok", val |-> lit.val]
             ELSE IF lit.exc \in {"ValueError", "SyntaxError"}
             THEN [flow |-> "continue", val |-> NoneV]
             ELSE [flow |-> "except", val |-> NoneV]
    ELSE [flow |-> "ok", val |-> NoneV]

\* lines 71-82: "continue" skips the candidate, "except" leaves through
\* the handler of line 98
ParsePrompt(prompt_content) ==
    IF isinstance(prompt_content, "str")
    THEN LET lit == literal_eval(prompt_content)
         IN  IF lit.exc = "" THEN [flow |-> "ok", val |-> lit.val]
             ELSE IF lit.exc \in {"ValueError", "SyntaxError"}
             THEN LET js == json_loads(prompt_content)
                  IN  IF js.exc = "" THEN [flow |-> "ok", val |-> js.val]
                      ELSE IF js.exc = "JSONDecodeError"
                      THEN [flow |-> "continue", val |-> NoneV]
                      ELSE [flow |-> "except", val |-> NoneV]
             ELSE [flow |-> "except", val |-> NoneV]
    ELSE [flow |-> "ok", val |-> NoneV]

\* lines 88-96
ResultMetadata(prompt_dict, score) ==
    ("Title" :> get(prompt_dict, "Title", Str("No Title"))) @@
    ("Author" :> get(prompt_dict, "Author", Str("No Author"))) @@
    ("Labels" :> get(prompt_dict, "Labels", Str("No Labels"))) @@
    ("Read Level" :> get(prompt_dict, "Read Level", Str("No Read level"))) @@
    ("Hyperlink" :> get(prompt_dict, "Hyperlink", Str("No Hyperlink"))) @@
    ("Match_Percentage" :> Str(Format2f(score)))

\* lines 65-99, one iteration: the records it appends to results
ProcessCandidate(data, c) ==
    LET row == iloc(data, c.idx)
    IN  IF row.exc # "" THEN <<>>
        ELSE LET parsed == ParsePrompt(row.val)
             IN  IF parsed.flow # "ok" THEN <<>>
                 ELSE IF ~isinstance(parsed.val, "dict") THEN <<>>
                 ELSE <<ResultMetadata(parsed.val, c.score)>>

RECURSIVE MaterializeLoop_Prepend(_, _, _, _)
MaterializeLoop_Prepend(data, cs, i, acc) ==
    IF i > Len(cs) THEN acc
    ELSE MaterializeLoop_Prepend(data, cs, i + 1,
                                 ProcessCandidate(data, cs[i]) \o acc)

\* lines 63-101
RECURSIVE MaterializeLoop(_, _, _, _)
MaterializeLoop(data, cs, i, acc) ==
    IF i > Len(cs) THEN acc
    ELSE MaterializeLoop(data, cs, i + 1, acc \o ProcessCandidate(data, cs[i]))

-----------------------------------------------------------------------------
(* Actions *)

Init ==
    /\ pc = "Loading"
    /\ model = NoneV /\ translator = NoneV /\ index = NoneV /\ df = NoneV
    /\ load_error = FALSE
    /\ user_query = Unset /\ top_n = 0
    /\ detected_language = ""
    /\ translated_query = Unset /\ encoded = Unset
    /\ cands = <<>> /\ results = <<>> /\ calls = <<>> /\ raised = {}

Request == <<user_query, top_n, detected_language, translated_query, encoded,
             cands, results,
             calls, raised>>
Globals == <<model, translator, index, df, load_error>>

Load_KeepsLoaded ==
    /\ pc = "Loading"
    /\ \E failed \in {"", "model", "translator", "index", "df"},
          rows \in Stores, ntotal \in 0..MaxIndex :
          IF failed = ""
          THEN /\ model' = Obj("SentenceTransformer")
               /\ translator' = Obj("Translator")
               /\ index' = Index(ntotal)
               /\ df' = DataFrame(rows)
               /\ load_error' = FALSE
          ELSE /\ model' = (IF failed = "model" THEN NoneV
                            ELSE Obj("SentenceTransformer"))
               /\ translator' = (IF failed \in {"model", "translator"} THEN NoneV
                                 ELSE Obj("Translator"))
               /\ index' = (IF failed = "df" THEN Index(ntotal) ELSE NoneV)
               /\ df' = (IF failed = "df" THEN DataFrame(<<>>) ELSE NoneV)
               /\ load_error' = TRUE
    /\ pc' = "Idle"
    /\ UNCHANGED Request

\* lines 19-32: failed names the first loader that raises, "" if none
Load ==
    /\ pc = "Loading"
    /\ \E failed \in {"", "model", "translator", "index", "df"},
          rows \in Stores, ntotal \in 0..MaxIndex :
          IF failed = ""
          THEN /\ model' = Obj("SentenceTransformer")
               /\ translator' = Obj("Translator")
               /\ index' = Index(ntotal)
               /\ df' = DataFrame(rows)
               /\ load_error' = FALSE
          ELSE /\ model' = NoneV /\ translator' = NoneV
               /\ index' = NoneV /\ df' = NoneV
               /\ load_error' = TRUE
    /\ pc' = "Idle"
    /\ UNCHANGED Request

\* lines 105-111 and 35-45
Receive ==
    /\ pc = "Idle"
    /\ \E q \in Queries, k \in TopNs :
          /\ user_query' = q
          /\ top_n' = k
          /\ IF ~AllLoaded(model, index, df, translator)
             THEN pc' = "Done" /\ translated_query' = Unset
             ELSE IF NotQuery(q)
             THEN pc' = "Done" /\ translated_query' = Unset
             ELSE pc' = "Translating" /\ translated_query' = q
    /\ results' = <<>> /\ calls' = <<>> /\ cands' = <<>> /\ raised' = {}
    /\ detected_language' = "" /\ encoded' = Unset
    /\ UNCHANGED Globals

\* lines 46-48, with the handler of lines 52-53: translator.detect returns
\* a language or raises
Detect ==
    /\ pc = "Translating"
    /\ detected_language = ""
    /\ calls' = Append(calls, "detect")
    /\ \E det \in Languages \cup {"raise"} :
          IF det = "raise"
          THEN /\ detected_language' = detected_language
               /\ raised' = raised \cup {"translation"}
               /\ pc' = "Embedding"
          ELSE /\ detected_language' = det
               /\ raised' = raised
               /\ pc' = (IF det # "en" THEN "Translating" ELSE "Embedding")
    /\ UNCHANGED <<Globals, user_query, top_n, translated_query, encoded, cands,
                   results>>

\* lines 49-51, with the handler of lines 52-53: translator.translate
\* returns or raises
Translate ==
    /\ pc = "Translating"
    /\ detected_language # ""
    /\ calls' = Append(calls, "translate")
    /\ \E tr \in {"ok", "raise"} :
          /\ translated_query' = TranslationResult(translated_query, user_query, tr)
          /\ raised' = (IF tr = "raise" THEN raised \cup {"translation"}
                        ELSE raised)
    /\ pc' = "Embedding"
    /\ UNCHANGED <<Globals, user_query, top_n, detected_language, encoded, cands,
                   results>>

Embed_GoesOn ==
    /\ pc = "Embedding"
    /\ encoded' = translated_query
    /\ calls' = Append(calls, "encode")
    /\ \E e \in {"ok", "raise"} :
          IF e = "raise"
          THEN results' = <<>> /\ pc' = "Searching"
               /\ raised' = raised \cup {"embedding"}
          ELSE results' = results /\ pc' = "Searching" /\ raised' = raised
    /\ UNCHANGED <<Globals, user_query, top_n, detected_language,
                   translated_query, cands>>

\* line 57, with the handler of lines 59-61
Embed ==
    /\ pc = "Embedding"
    /\ encoded' = translated_query
    /\ calls' = Append(calls, "encode")
    /\ \E e \in {"ok", "raise"} :
          IF e = "raise"
          THEN results' = <<>> /\ pc' = "Done"
               /\ raised' = raised \cup {"embedding"}
          ELSE results' = results /\ pc' = "Searching" /\ raised' = raised
    /\ UNCHANGED <<Globals, user_query, top_n, detected_language,
                   translated_query, cands>>

Search_NoHandler ==
    /\ pc = "Searching"
    /\ calls' = Append(calls, "search")
    /\ \/ /\ results' = results /\ pc' = "Raised" /\ cands' = cands
          /\ raised' = raised \cup {"search"}
       \/ /\ cands' \in SearchResults(index.v, top_n)
          /\ results' = results /\ pc' = "Materializing" /\ raised' = raised
    /\ UNCHANGED <<Globals, user_query, top_n, detected_language,
                   translated_query, encoded>>

\* line 58, with the handler of lines 59-61
Search ==
    /\ pc = "Searching"
    /\ calls' = Append(calls, "search")
    /\ \/ /\ results' = <<>> /\ pc' = "Done" /\ cands' = cands
          /\ raised' = raised \cup {"search"}
       \/ /\ cands' \in SearchResults(index.v, top_n)
          /\ results' = results /\ pc' = "Materializing" /\ raised' = raised
    /\ UNCHANGED <<Globals, user_query, top_n, detected_language,
                   translated_query, encoded>>

\* lines 63-101
Materialize ==
    /\ pc = "Materializing"
    /\ results' = MaterializeLoop(df, cands, 1, <<>>)
    /\ calls' = calls \o [i \in 1..Len(cands) |-> "iloc"]
    /\ pc' = "Done"
    /\ UNCHANGED <<Globals, user_query, top_n, detected_language,
                   translated_query, encoded, cands, raised>>

\* line 113: the response is sent and the request's values are dropped
Respond ==
    /\ pc = "Done"
    /\ pc' = "Idle"
    /\ user_query' = Unset /\ top_n' = 0
    /\ detected_language' = ""
    /\ translated_query' = Unset /\ encoded' = Unset
    /\ cands' = <<>> /\ results' = <<>> /\ calls' = <<>> /\ raised' = {}
    /\ UNCHANGED Globals

Next == Load \/ Receive \/ Detect \/ Translate \/ Embed \/ Search \/ Materialize \/ Respond

Spec == Init /\ [][Next]_vars

-----------------------------------------------------------------------------
(* Reading a formatted number back *)

DigitValue(ch) == CHOOSE d \in 0..9 : DigitChars[d + 1] = ch
IsDigit(ch) == \E d \in 0..9 : DigitChars[d + 1] = ch

RECURSIVE DigitsValue(_)
DigitsValue(ds) ==
    IF ds = <<>> THEN 0
    ELSE 10 * DigitsValue(SubSeq(ds, 1, Len(ds) - 1)) + DigitValue(ds[Len(ds)])

\* the value, in hundredths, of a text with two decimals and an optional sign
\* and "%" suffix
Hundredths(text) ==
    LET mag == DigitsValue(SelectSeq(text, IsDigit))
    IN  IF text # <<>> /\ text[1] = "-" THEN -mag ELSE mag

MatchValue(rec) == Hundredths(rec["Match_Percentage"].v)

RecordKeys == {"Title", "Author", "Labels", "Read Level", "Hyperlink",
               "Match_Percentage"}

Materialized == pc = "Done" /\ "iloc" \in Range(calls)

-----------------------------------------------------------------------------
(* Claims *)

\* clamp(s * 100, 0, 100) with two decimals and a "%" suffix
PercentText(u) ==
    LET h == IF u < 0 THEN 0
             ELSE IF u > ScoreDen THEN 10000
             ELSE RoundHalfEven(10000 * u, ScoreDen)
    IN  Fixed2(h) \o <<"%">>

\* C1: every returned record's Match_Percentage is the text of
\* clamp(score * 100, 0, 100) with two decimals and a trailing "%", for the
\* score of one of the candidates, so its value lies in [0.00, 100.00].
C1_MatchPercentageClamped ==
    pc = "Done" =>
        \A j \in 1..Len(results) :
            /\ \E i \in 1..Len(cands) :
                  results[j]["Match_Percentage"] = Str(PercentText(cands[i].score))
            /\ MatchValue(results[j]) >= 0
            /\ MatchValue(results[j]) <= 10000

InRange(c) == 0 <= c.idx /\ c.idx < Len(df.v)

\* C2: the returned records are exactly those of the candidates whose
\* position is in 0..N-1; any other candidate, the placeholder -1 included,
\* contributes nothing, so there are at most N records.
C2_OnlyValidPositions ==
    Materialized =>
        /\ results = MaterializeLoop(df, SelectSeq(cands, InRange), 1, <<>>)
        /\ Len(results) <= Len(df.v)

\* C3: the values of Match_Percentage never increase along a returned list.
C3_RankOrder ==
    pc = "Done" =>
        \A j, k \in 1..Len(results) :
            j < k => MatchValue(results[j]) >= MatchValue(results[k])

C3_Witness ==
    /\ Materialized
    /\ Len(results) >= 2
    /\ Len(results) < Len(cands)
    /\ MatchValue(results[1]) > MatchValue(results[Len(results)])

\* C4: a request with a falsy query ends at once with an empty list and
\* without any call to the translator, the embedder, the index or the
\* record store, whether the dependencies were loaded or not.
C4_EmptyQuery ==
    (user_query # Unset /\ ~Truthy(user_query)) =>
        /\ pc = "Done"
        /\ results = <<>>
        /\ calls = <<>>

C4_Witness ==
    /\ pc = "Done"
    /\ user_query = Str("")
    /\ ~load_error

\* C5: when the embedder or the index search raises, the request is Done
\* with the empty list: nothing was read from the record store, no record
\* was made and no exception left the pipeline.
C5_FaissFailureEmpty ==
    (raised \cap {"embedding", "search"} # {}) =>
        /\ pc = "Done"
        /\ results = <<>>
        /\ "iloc" \notin Range(calls)

C5_Witness ==
    /\ pc = "Done"
    /\ "search" \in raised
    /\ Len(df.v) > 0

\* C6: when detection or translation raises, the request goes on and the
\* embedder is given the original query.
C6_TranslationFallback ==
    ("translation" \in raised) =>
        /\ pc # "Translating"
        /\ translated_query = user_query
        /\ (pc # "Embedding" => encoded = user_query)

C6_Witness ==
    /\ "translation" \in raised
    /\ "translate" \in Range(calls)
    /\ encoded = user_query
    /\ TranslateText(user_query) # user_query
    /\ results # <<>>

FetchSucceeds(data, c) == -Len(data.v) <= c.idx /\ c.idx < Len(data.v)

Fetched(data, c) ==
    data.v[IF c.idx >= 0 THEN c.idx + 1 ELSE Len(data.v) + c.idx + 1]

\* the mapping a payload parses to, by the literal parse or else the JSON
\* parse; NoneV when there is none
MappingOf(p) ==
    IF p.t # "str" THEN NoneV
    ELSE IF literal_eval(p).exc = ""
         THEN (IF literal_eval(p).val.t = "dict" THEN literal_eval(p).val ELSE NoneV)
    ELSE IF json_loads(p).exc = ""
         THEN (IF json_loads(p).val.t = "dict" THEN json_loads(p).val ELSE NoneV)
    ELSE NoneV

Qualifies(c) == FetchSucceeds(df, c) /\ MappingOf(Fetched(df, c)).t = "dict"

\* C7: the loop returns, in rank order, one record for each candidate whose
\* fetch succeeds and whose payload parses to a mapping, none for any other,
\* and never more than top_n records; no exception leaves it.
C7_MaterializeExact ==
    (pc = "Done" /\ cands # <<>>) =>
        LET kept == SelectSeq(cands, Qualifies)
        IN  /\ Len(results) = Len(kept)
            /\ Len(results) <= top_n
            /\ \A j \in 1..Len(kept) :
                  results[j] =
                      ResultMetadata(MappingOf(Fetched(df, kept[j])), kept[j].score)

C7_Witness ==
    /\ Materialized
    /\ \E i, j \in 1..Len(cands) :
          /\ i < j
          /\ FetchSucceeds(df, cands[i]) /\ ~Qualifies(cands[i])
          /\ Qualifies(cands[j])
          /\ literal_eval(Fetched(df, cands[j])).exc # ""
    /\ \E i \in 1..Len(cands) : ~FetchSucceeds(df, cands[i])
    /\ results # <<>>

\* C8: after a failed start-up the four dependencies stay unset and every
\* request, whatever its query, ends with the empty list and no call.
C8_DegradedForever ==
    load_error =>
        /\ model = NoneV /\ translator = NoneV /\ index = NoneV /\ df = NoneV
        /\ pc \in {"Idle", "Done"}
        /\ results = <<>>
        /\ calls = <<>>

C8_Witness ==
    /\ load_error
    /\ pc = "Done"
    /\ Truthy(user_query)

\* C9: every returned record has exactly the six keys and every value is a
\* string, a key the payload lacks taking its default.
C9_SixStringFields ==
    pc = "Done" =>
        \A j \in 1..Len(results) :
            /\ DOMAIN results[j] = RecordKeys
            /\ \A key \in RecordKeys : results[j][key].t = "str"

Count(op) == Cardinality({i \in 1..Len(calls) : calls[i] = op})

StageRank(op) ==
    CASE op = "detect" -> 1
      [] op = "translate" -> 2
      [] op = "encode" -> 3
      [] op = "search" -> 4
      [] op = "iloc" -> 5

\* the calls of a request come in stage order, only the record store being
\* read more than once
CallOrder ==
    /\ \A i \in 1..(Len(calls) - 1) :
          \/ StageRank(calls[i]) < StageRank(calls[i + 1])
          \/ calls[i] = "iloc" /\ calls[i + 1] = "iloc"
    /\ (calls # <<>> => calls[1] = "detect")
    /\ ("search" \in Range(calls) =>
            "encode" \in Range(calls) /\ "embedding" \notin raised)
    /\ ("iloc" \in Range(calls) =>
            "search" \in Range(calls) /\ "search" \notin raised)
    /\ (pc = "Done" /\ Truthy(user_query) /\ ~load_error => Count("encode") = 1)
    /\ (pc = "Translating" =>
            /\ "encode" \notin Range(calls)
            /\ ("translate" \in Range(calls) => "detect" \in Range(calls))
            /\ ENABLED (Detect \/ Translate))
    /\ (pc = "Embedding" => ENABLED Embed)
    /\ (pc = "Searching" => ENABLED Search)

StageEdges ==
    pc' # pc =>
        <<pc, pc'>> \in {<<"Loading", "Idle">>, <<"Idle", "Translating">>,
                         <<"Idle", "Done">>, <<"Translating", "Embedding">>,
                         <<"Embedding", "Searching">>, <<"Embedding", "Done">>,
                         <<"Searching", "Materializing">>, <<"Searching", "Done">>,
                         <<"Materializing", "Done">>, <<"Done", "Idle">>}

\* C10: the stages of a request run in the order Translating, Embedding,
\* Searching, Materializing, Done, none twice: one encode, after the
\* translation stage; at most one search, after a successful encode; the
\* record store is read only after a successful search; the request ends in
\* Done: every stage that waits for a capability has a step to take, and
\* every step leads on towards Done.
C10_StageOrder ==
    /\ []CallOrder
    /\ [][StageEdges]_vars

C10_Witness ==
    /\ pc = "Done"
    /\ "translation" \in raised
    /\ Count("iloc") = TopN
    /\ results # <<>>

====
